---- MODULE Spec2Model ----
(***************************************************************************)
(* Model of the AI Travel Booking Concierge Agent.                         *)
(*                                                                         *)
(*   app/api/main.py            session table and the chat/session API     *)
(*   app/agent/travel_agent.py  the AgentExecutor configuration            *)
(*   app/Tools/utils/memory.py  SimpleMemoryStore                          *)
(*   app/Tools/*.py             search_flights, search_hotels,             *)
(*                              create_booking                             *)
(*                                                                         *)
(* Spec      the web service: requests arrive, the event loop runs one     *)
(*           handler at a time (every handler is an `async def` without    *)
(*           an await), a chat handler drives one reasoning run.           *)
(* ToolSpec  the three tool bodies called directly with arguments and      *)
(*           provider / file-system outcomes drawn from bounded sets.      *)
(***************************************************************************)
EXTENDS Integers, Sequences, FiniteSets, Bags, TLC

VARIABLES
    sessions,   \* main.py `sessions`: session id -> the messages of its memory
    issued,     \* the ids uuid.uuid4() has produced so far
    loop,       \* the request whose handler occupies the event loop, or NoReq
    pc,         \* per request: where its chat handler stands
    request,    \* per request: the ChatRequest body (session_id, message)
    sid,        \* per request: the local `session_id` of chat()
    iterations, \* per request: the iteration counter of the reasoning run
    lastObs,    \* per request: the latest entry of the run's scratch log
    llmCalls,   \* per request: calls of the reasoning model made by the run
    lastOut,    \* per request: the latest output of the reasoning model in the run
    unparsable, \* per request: every output of the run so far was unparsable
    output,     \* per request: result["output"] of the run
    chat_history, \* per request: the "chat_history" the run was invoked with
    turns,      \* history: per session id, successful turns since it was created
    last,       \* the latest response sent by any handler
    bookings,   \* data/bookings: file name (booking reference) -> file content
    clock,      \* datetime.now(), in seconds
    lastCall    \* ToolSpec: the direct tool invocation at hand and what it returned

vars == <<sessions, issued, loop, pc, request, sid, iterations, lastObs, llmCalls,
          lastOut, unparsable, output, chat_history, turns, last, bookings, clock,
          lastCall>>

chatVars == <<sessions, issued, loop, pc, request, sid, iterations, lastObs, llmCalls,
              lastOut, unparsable, output, chat_history, turns, last>>

runVars == <<iterations, lastObs, llmCalls, lastOut, unparsable, output, chat_history>>

-----------------------------------------------------------------------------
(* Bounds of the model *)

MaxTurns == 2       \* successful turns kept in the memories of the table
MaxClock == 2       \* seconds the clock may advance
MaxCalls == 2       \* direct create_booking calls in a row (ToolSpec)

(* Finite domains of the inputs *)

NoReq == "none"
None == "None"
Reqs == {"r1", "r2"}
Uuids == {"u1"}
ClientIds == {"c1"}
SessionIds == Uuids \cup ClientIds
Messages == {"m1"}
Answers == {"a1"}
RawText == "raw"


-----------------------------------------------------------------------------
(* Python values and helpers *)

Obj == "<object>"                 \* a value json.dumps cannot serialise
Serializable(v) == v # Obj

Min(a, b) == IF a < b THEN a ELSE b
Max(a, b) == IF a > b THEN a ELSE b

\* xs[:n] of Python: a negative n counts from the end
SliceTo(xs, n) ==
    IF n >= 0 THEN SubSeq(xs, 1, Min(n, Len(xs)))
    ELSE SubSeq(xs, 1, Max(Len(xs) + n, 0))

\* what a tool hands back to its caller: a JSON document, or an exception
Returned(j) == [raised |-> FALSE, json |-> j]
Raised == [raised |-> TRUE]

Fields(j) == DOMAIN j

\* outcome of the statements inside a tool's try block
Ok(j) == [exc |-> FALSE, ret |-> j]
Exc == [exc |-> TRUE]

\* json.dumps(j): TypeError when a caller-supplied value in j is not serialisable
Dumps(j, vals) == IF \A v \in vals : Serializable(v) THEN Ok(j) ELSE Exc

\* `not api_key`: os.getenv gives None when unset, and "" is falsy too
Truthy(v) == v \notin {None, ""}

-----------------------------------------------------------------------------
(* app/Tools/flight_search.py *)

MockFlights ==
    << [price |-> "$450", airline |-> "Air India", departure_time |-> "10:30 AM",
        arrival_time |-> "02:45 PM", duration |-> "2h 15m", layovers |-> 0],
       [price |-> "$380", airline |-> "IndiGo", departure_time |-> "06:15 AM",
        arrival_time |-> "10:30 AM", duration |-> "2h 15m", layovers |-> 0],
       [price |-> "$520", airline |-> "Vistara", departure_time |-> "03:00 PM",
        arrival_time |-> "07:20 PM", duration |-> "2h 20m", layovers |-> 0],
       [price |-> "$340", airline |-> "SpiceJet", departure_time |-> "11:45 PM",
        arrival_time |-> "04:00 AM (+1)", duration |-> "2h 15m", layovers |-> 0] >>

FlightNote == "Sample data shown. Configure SERPAPI_KEY for live data."

FlightArgVals(a) == {a.origin, a.destination, a.departure_date, a.return_date}

_get_mock_flight_data(a) ==
    Dumps([success |-> TRUE,
           origin |-> a.origin,
           destination |-> a.destination,
           departure_date |-> a.departure_date,
           return_date |-> a.return_date,
           flights |-> MockFlights,
           count |-> Len(MockFlights),
           note |-> FlightNote],
          FlightArgVals(a))

\* one entry of data["best_flights"] as the loop of lines 69-77 reads it
LiveFlight ==
    [price |-> "N/A", airline |-> "Unknown", departure_time |-> "N/A",
     arrival_time |-> "N/A", duration |-> "N/A", layovers |-> 0]

\* lines 63-89: the provider answered 200
FlightLive(a, body) ==
    IF ~body.json THEN Exc                      \* response.json() raises
    ELSE LET best == IF body.has_list THEN SliceTo(body.list, 5) ELSE <<>>
         IN IF \E i \in 1..Len(best) : best[i] = "bad"
            THEN Exc                            \* flight["flights"][0] raises
            ELSE LET flights == [i \in 1..Len(best) |-> LiveFlight]
                 IN Dumps([success |-> TRUE,
                           origin |-> a.origin,
                           destination |-> a.destination,
                           departure_date |-> a.departure_date,
                           return_date |-> a.return_date,
                           flights |-> flights,
                           count |-> Len(flights)],
                          FlightArgVals(a))

\* lines 33-91: the statements of the try block
FlightTry(a, e) ==
    IF ~Truthy(e.api_key) THEN _get_mock_flight_data(a)
    ELSE IF e.net # "ok" THEN Exc               \* requests.get raises
    ELSE IF e.status = 200 THEN FlightLive(a, e.body)
    ELSE _get_mock_flight_data(a)

FlightError ==
    [success |-> FALSE, error |-> "Flight search failed",
     message |-> "Using sample data instead"]

\* lines 93-98: `except Exception` around the whole body
FlightExceptNone(t) == IF t.exc THEN Raised ELSE Returned(t.ret)
FlightExcept(t) == IF t.exc THEN Returned(FlightError) ELSE Returned(t.ret)

search_flights(a, e) == FlightExcept(FlightTry(a, e))

-----------------------------------------------------------------------------
(* app/Tools/hotel_search.py *)

\* the five sample hotels of lines 108-149; f"{city} ..." is kept as a pair
MockHotels(city) ==
    << [name |-> "Grand Plaza Hotel", hotel_id |-> "H001",
        address |-> <<city, "City Center">>, rating |-> "4.5",
        price_per_night |-> "$120",
        amenities |-> <<"WiFi", "Pool", "Gym", "Restaurant", "Spa">>],
       [name |-> "City View Inn", hotel_id |-> "H002",
        address |-> <<city, "Downtown">>, rating |-> "4.2",
        price_per_night |-> "$95",
        amenities |-> <<"WiFi", "Breakfast", "Parking", "Airport Shuttle">>],
       [name |-> "Luxury Suites", hotel_id |-> "H003",
        address |-> <<city, "Business District">>, rating |-> "4.8",
        price_per_night |-> "$180",
        amenities |-> <<"WiFi", "Pool", "Gym", "Restaurant", "Bar", "Spa",
                        "Conference Rooms">>],
       [name |-> "Budget Stay Hotel", hotel_id |-> "H004",
        address |-> <<city, "Airport Area">>, rating |-> "3.9",
        price_per_night |-> "$65",
        amenities |-> <<"WiFi", "Breakfast", "24/7 Reception">>],
       [name |-> "Boutique Heritage Hotel", hotel_id |-> "H005",
        address |-> <<city, "Old Town">>, rating |-> "4.6",
        price_per_night |-> "$145",
        amenities |-> <<"WiFi", "Restaurant", "Rooftop Terrace", "Heritage Tours">>] >>

HotelNote == "Sample data shown. Configure AMADEUS_API_KEY for live data."

HotelArgVals(a) == {a.city, a.check_in, a.check_out}

_get_mock_hotel_data(a) ==
    LET hotels == MockHotels(a.city)
    IN Dumps([success |-> TRUE,
              city |-> a.city,
              check_in |-> a.check_in,
              check_out |-> a.check_out,
              guests |-> a.guests,
              hotels |-> SliceTo(hotels, a.max_results),
              count |-> Min(Len(hotels), a.max_results),
              note |-> HotelNote],
             HotelArgVals(a))

\* one entry of data["data"] as the loop of lines 72-80 builds it; i entries precede it
LiveHotel(a, i) ==
    [name |-> "Unknown Hotel", hotel_id |-> "N/A", address |-> <<a.city, "">>,
     rating |-> "4.5", price_per_night |-> 100 + (i * 25),
     amenities |-> <<"WiFi", "Pool", "Gym", "Restaurant">>]

\* lines 68-92: the search request answered 200
HotelLive(a, body) ==
    IF ~body.json THEN Exc                      \* response.json() raises
    ELSE LET data == IF body.has_list THEN SliceTo(body.list, a.max_results) ELSE <<>>
         IN IF \E i \in 1..Len(data) : data[i] = "bad"
            THEN Exc                            \* hotel.get(...) raises
            ELSE LET hotels == [i \in 1..Len(data) |-> LiveHotel(a, i - 1)]
                 IN Dumps([success |-> TRUE,
                           city |-> a.city,
                           check_in |-> a.check_in,
                           check_out |-> a.check_out,
                           guests |-> a.guests,
                           hotels |-> hotels,
                           count |-> Len(hotels)],
                          HotelArgVals(a))

\* lines 34-94: the statements of the try block
HotelTry(a, e) ==
    IF ~Truthy(e.api_key) \/ ~Truthy(e.api_secret) THEN _get_mock_hotel_data(a)
    ELSE IF e.token.net # "ok" THEN Exc         \* requests.post raises
    ELSE IF e.token.status # 200 THEN _get_mock_hotel_data(a)
    ELSE IF e.token.body # "token" THEN Exc     \* .json()["access_token"] raises
    ELSE IF ~Serializable(a.city) THEN Exc      \* len(city) raises
    ELSE IF e.search.net # "ok" THEN Exc        \* requests.get raises
    ELSE IF e.search.status = 200 THEN HotelLive(a, e.search.body)
    ELSE _get_mock_hotel_data(a)

HotelError ==
    [success |-> FALSE, error |-> "Hotel search failed",
     message |-> "Using sample data instead"]

\* lines 96-101: `except Exception` around the whole body
HotelExceptNone(t) == IF t.exc THEN Raised ELSE Returned(t.ret)
HotelExcept(t) == IF t.exc THEN Returned(HotelError) ELSE Returned(t.ret)

search_hotels(a, e) == HotelExcept(HotelTry(a, e))

-----------------------------------------------------------------------------
(* app/Tools/booking_tool.py *)

\* strings whose characters matter are sequences of one-character strings
LowerChar(c) ==
    CASE c = "A" -> "a" [] c = "C" -> "c" [] c = "E" -> "e" [] c = "F" -> "f"
      [] c = "G" -> "g" [] c = "H" -> "h" [] c = "I" -> "i" [] c = "L" -> "l"
      [] c = "O" -> "o" [] c = "R" -> "r" [] c = "T" -> "t" [] OTHER -> c

UpperChar(c) ==
    CASE c = "a" -> "A" [] c = "c" -> "C" [] c = "e" -> "E" [] c = "f" -> "F"
      [] c = "g" -> "G" [] c = "h" -> "H" [] c = "i" -> "I" [] c = "l" -> "L"
      [] c = "o" -> "O" [] c = "r" -> "R" [] c = "t" -> "T" [] OTHER -> c

\* (mutant) the type is compared as it was given
LowerAsGiven(s) == s
Lower(s) == [i \in 1..Len(s) |-> LowerChar(s[i])]
Upper(s) == [i \in 1..Len(s) |-> UpperChar(s[i])]

Flight == <<"f", "l", "i", "g", "h", "t">>
Hotel == <<"h", "o", "t", "e", "l">>

DigitChar(d) ==
    CASE d = 0 -> "0" [] d = 1 -> "1" [] d = 2 -> "2" [] d = 3 -> "3" [] d = 4 -> "4"
      [] d = 5 -> "5" [] d = 6 -> "6" [] d = 7 -> "7" [] d = 8 -> "8" [] d = 9 -> "9"

\* (mutant) strftime('%Y%m%d%H%M'): the minute, not the second
TimestampMinutes(now) ==
    <<"2", "0", "2", "5", "0", "6", "0", "1", "1", "2", "0", "0">>

\* datetime.now().strftime('%Y%m%d%H%M%S'), the clock counting seconds of one minute
Timestamp(now) ==
    <<"2", "0", "2", "5", "0", "6", "0", "1", "1", "2", "0", "0">>
        \o << DigitChar((now \div 10) % 10), DigitChar(now % 10) >>

\* json.loads(text) on the texts of the model
ObjectText == "{\"hotel\": \"Grand Plaza\"}"
NumberText == "42"
PlainText == "Grand Plaza, 2 nights"

JsonLoads(text) ==
    CASE text = ObjectText -> Ok([type |-> "dict", keys |-> {"hotel"}, src |-> text])
      [] text = NumberText -> Ok([type |-> "number", keys |-> {}, src |-> text])
      [] OTHER -> Exc

\* lines 39-45
ParseDetails(d) ==
    IF d.str
    THEN LET p == JsonLoads(d.val)
         IN IF p.exc
            THEN [type |-> "dict", keys |-> {"description"}, src |-> d.val]
            ELSE p.ret
    ELSE d.val

InvalidType ==
    [success |-> FALSE, error |-> "Invalid booking type. Must be 'flight' or 'hotel'."]

BookingError == [success |-> FALSE, error |-> "Booking creation failed"]

\* a file of data/bookings: a whole record, or what an interrupted json.dump left
Whole(b) == [complete |-> TRUE, record |-> b]
Partial == [complete |-> FALSE]

WriteFile(files, ref, content) ==
    [f \in DOMAIN files \cup {ref} |-> IF f = ref THEN content ELSE files[f]]

\* lines 32-74: the statements of the try block; gives the outcome and the files
BookingTry(a, e, now, files) ==
    IF ~a.booking_type.str
    THEN [out |-> Exc, files |-> files]                 \* .lower() raises
    ELSE IF Lower(a.booking_type.val) \notin {Flight, Hotel}
    THEN [out |-> Ok(InvalidType), files |-> files]
    ELSE
      LET bt == a.booking_type.val
          details == ParseDetails(a.booking_details)
          booking_ref == SliceTo(Upper(bt), 3) \o <<"-">> \o Timestamp(now)
          booking ==
              [success |-> TRUE,
               booking_reference |-> booking_ref,
               booking_type |-> Lower(bt),
               status |-> "CONFIRMED",
               booking_details |-> details,
               customer_info |-> [name |-> a.customer_name, email |-> a.customer_email],
               created_at |-> now,
               confirmation_message |-> <<"Your", bt, "booking has been confirmed!">>]
          dumpable == /\ details.type # "pyobject"
                      /\ Serializable(a.customer_name)
                      /\ Serializable(a.customer_email)
      IN IF e.makedirs # "ok" THEN [out |-> Exc, files |-> files]
         ELSE IF e.open # "ok" THEN [out |-> Exc, files |-> files]
         ELSE IF ~dumpable \/ e.write # "ok"
         THEN [out |-> Exc, files |-> WriteFile(files, booking_ref, Partial)]
         ELSE [out |-> Ok(booking), files |-> WriteFile(files, booking_ref, Whole(booking))]

\* lines 76-80: `except Exception` around the whole body
BookingExceptNone(t) == IF t.exc THEN Raised ELSE Returned(t.ret)
BookingExcept(t) == IF t.exc THEN Returned(BookingError) ELSE Returned(t.ret)

create_booking(a, e, now, files) ==
    LET t == BookingTry(a, e, now, files)
    IN [ret |-> BookingExcept(t.out), files |-> t.files]

-----------------------------------------------------------------------------
(* app/agent/travel_agent.py: the AgentExecutor and its configuration *)

\* (mutants) a fourth tool is registered; parse errors are not handled; a higher cap
tools_with_cancel == {"search_flights", "search_hotels", "create_booking", "cancel_booking"}
handle_parsing_errors_off == FALSE
max_iterations_higher == 10 + 2

tools == {"search_flights", "search_hotels", "create_booking"}
handle_parsing_errors == TRUE
max_iterations == 10
early_stopping_method == "generate"

ForceText == "Agent stopped due to iteration limit or time limit."

\* what the reasoning model may emit at one step
ToolCallNames == tools \cup {"cancel_booking"}
NoOutput == [kind |-> "none", text |-> ""]
LLMOutputs ==
    {[kind |-> "final", text |-> a] : a \in Answers}
        \cup {[kind |-> "tool", text |-> n] : n \in ToolCallNames}
        \cup {[kind |-> "malformed", text |-> RawText], [kind |-> "error", text |-> ""]}

\* the arguments and provider outcomes of the tool calls the agent makes
AgentFlightArgs ==
    [origin |-> "JFK", destination |-> "CDG", departure_date |-> "2025-06-01",
     return_date |-> None]
AgentHotelArgs ==
    [city |-> "Paris", check_in |-> "2025-06-01", check_out |-> "2025-06-03",
     guests |-> 1, max_results |-> 5]
AgentBookingArgs ==
    [booking_type |-> [str |-> TRUE, val |-> Hotel],
     booking_details |-> [str |-> TRUE, val |-> PlainText],
     customer_name |-> "A. Traveler", customer_email |-> "a@x.com"]

OkList == [json |-> TRUE, has_list |-> TRUE, list |-> <<"ok">>]
AgentFlightEnvs ==
    {[api_key |-> None, net |-> "ok", status |-> 200, body |-> OkList],
     [api_key |-> "k", net |-> "timeout", status |-> 200, body |-> OkList],
     [api_key |-> "k", net |-> "ok", status |-> 200, body |-> OkList]}
OkToken == [net |-> "ok", status |-> 200, body |-> "token"]
AgentHotelEnvs ==
    {[api_key |-> None, api_secret |-> None, token |-> OkToken,
      search |-> [net |-> "ok", status |-> 200, body |-> OkList]],
     [api_key |-> "k", api_secret |-> "s", token |-> OkToken,
      search |-> [net |-> "timeout", status |-> 200, body |-> OkList]]}
AgentBookingEnvs ==
    {[makedirs |-> "ok", open |-> "ok", write |-> "ok"],
     [makedirs |-> "ok", open |-> "error", write |-> "ok"]}

\* the adapter the executor dispatches a tool call to: its result and the files after it
Dispatch(name, files, now) ==
    CASE name = "search_flights" ->
             {[ret |-> search_flights(AgentFlightArgs, e), files |-> files] :
                 e \in AgentFlightEnvs}
      [] name = "search_hotels" ->
             {[ret |-> search_hotels(AgentHotelArgs, e), files |-> files] :
                 e \in AgentHotelEnvs}
      [] name = "create_booking" ->
             {create_booking(AgentBookingArgs, e, now, files) : e \in AgentBookingEnvs}
      [] OTHER ->     \* whatever else is registered under that name
             {[ret |-> Returned([success |-> TRUE]), files |-> files]}

NoObs == [kind |-> "none", name |-> None, adapter |-> None]
ParseErrorObs == [kind |-> "parse_error", name |-> None, adapter |-> None]
InvalidToolObs(n) == [kind |-> "invalid_tool", name |-> n, adapter |-> None]
ToolObs(n, ret) == [kind |-> "tool_result", name |-> n, adapter |-> n]

\* the executor's loop condition
ShouldContinue(it) == it < max_iterations

\* where the run stands after an iteration that produced an observation
AfterStep(it) == IF ShouldContinue(it) THEN "THINKING" ELSE "STOPPED"

\* the outcomes of acting on a tool call: an observation, or an exception out of the run
ActOutcomes(name, files, now) ==
    IF name \in tools
    THEN {IF d.ret.raised
          THEN [failed |-> TRUE, obs |-> NoObs, files |-> d.files]
          ELSE [failed |-> FALSE, obs |-> ToolObs(name, d.ret), files |-> d.files] :
             d \in Dispatch(name, files, now)}
    ELSE {[failed |-> FALSE, obs |-> InvalidToolObs(name), files |-> files]}

\* the best-effort answer produced when the cap is reached
StoppedResponse(o) ==
    IF early_stopping_method = "force"
    THEN [called |-> FALSE, failed |-> FALSE, text |-> ForceText]
    ELSE IF o.kind = "error" THEN [called |-> TRUE, failed |-> TRUE, text |-> ""]
    ELSE IF o.kind = "final" THEN [called |-> TRUE, failed |-> FALSE, text |-> o.text]
    ELSE [called |-> TRUE, failed |-> FALSE, text |-> RawText]

-----------------------------------------------------------------------------
(* app/Tools/utils/memory.py *)

HumanMessage(content) == [role |-> "user", content |-> content]
AIMessage(content) == [role |-> "assistant", content |-> content]

\* SimpleMemoryStore.add_message
add_message(messages, message) == Append(messages, message)

\* (mutant) the memory of a new session starts with a greeting
create_memory_with_greeting(s) == <<AIMessage("How can I assist?")>>

\* create_memory_for_session: a ConversationBufferMemory over an empty SimpleMemoryStore
create_memory_for_session(s) == <<>>

-----------------------------------------------------------------------------
(* app/api/main.py *)

MemOf(s) == IF s \in DOMAIN sessions THEN sessions[s] ELSE <<>>

MemAfter(s) == IF s \in DOMAIN sessions' THEN sessions'[s] ELSE <<>>

\* (mutant) `sessions = {session_id: ...}`: the table is replaced, not updated
PutAlone(table, s, mem) == [x \in {s} |-> mem]
Put(table, s, mem) == [x \in DOMAIN table \cup {s} |-> IF x = s THEN mem ELSE table[x]]
\* (mutant) the entry is deleted from a copy of the table
DropFromCopy(table, s) == table
Drop(table, s) == [x \in DOMAIN table \ {s} |-> table[x]]

\* (mutant) the handler yields while it waits for the run
LoopYields == TRUE

\* (mutant) `await agent_executor.ainvoke(...)`: the loop is free while a run thinks
LoopFreeWhileThinking == \A r \in Reqs : loop = r => pc[r] = "THINKING"

\* every handler is an `async def` that never awaits: it runs on the event loop
\* from its first line to its return, and no other handler runs meanwhile
LoopFree == loop = NoReq

RECURSIVE SumTurns(_)
SumTurns(S) == IF S = {} THEN 0
               ELSE LET s == CHOOSE x \in S : TRUE IN turns[s] + SumTurns(S \ {s})
StoredTurns == SumTurns(DOMAIN sessions)

InFlight == {"THINKING", "STOPPED", "DONE", "FAILED"}

NoRequest == [session_id |-> None, message |-> ""]
NoResponse ==
    [op |-> "none", status |-> 0, session_id |-> None, body |-> "", ids |-> {}]

Init ==
    /\ sessions = << >>
    /\ issued = {}
    /\ loop = NoReq
    /\ pc = [r \in Reqs |-> "idle"]
    /\ request = [r \in Reqs |-> NoRequest]
    /\ sid = [r \in Reqs |-> None]
    /\ iterations = [r \in Reqs |-> 0]
    /\ lastObs = [r \in Reqs |-> NoObs]
    /\ llmCalls = [r \in Reqs |-> 0]
    /\ lastOut = [r \in Reqs |-> NoOutput]
    /\ unparsable = [r \in Reqs |-> TRUE]
    /\ output = [r \in Reqs |-> ""]
    /\ chat_history = [r \in Reqs |-> <<>>]
    /\ turns = [s \in SessionIds |-> 0]
    /\ last = NoResponse
    /\ bookings = << >>
    /\ clock = 0
    /\ lastCall = [tool |-> "none", state |-> "none"]

\* a client sends POST /api/chat, with no session_id, an empty one, one it chose
\* or one it was given
Submit(r) ==
    /\ pc[r] = "idle"
    /\ \E s \in {None, ""} \cup ClientIds \cup issued, m \in Messages :
          request' = [request EXCEPT ![r] = [session_id |-> s, message |-> m]]
    /\ pc' = [pc EXCEPT ![r] = "pending"]
    /\ UNCHANGED <<sessions, issued, loop, sid, runVars, turns, last,
                   bookings, clock, lastCall>>

\* chat, lines 111-128: obtain the session and start the reasoning run
chat_begin(r) ==
    /\ pc[r] = "pending"
    /\ LoopFree
    /\ \E s \in SessionIds :
          /\ IF Truthy(request[r].session_id)       \* request.session_id or uuid4()
             THEN s = request[r].session_id
             ELSE s \in Uuids \ (issued \cup DOMAIN sessions)
          /\ StoredTurns < MaxTurns
          /\ issued' = IF Truthy(request[r].session_id) THEN issued ELSE issued \cup {s}
          /\ sessions' = IF s \in DOMAIN sessions THEN sessions
                         ELSE Put(sessions, s, create_memory_for_session(s))
          /\ sid' = [sid EXCEPT ![r] = s]
    /\ loop' = r
    /\ pc' = [pc EXCEPT ![r] = AfterStep(0)]
    /\ iterations' = [iterations EXCEPT ![r] = 0]
    /\ lastObs' = [lastObs EXCEPT ![r] = NoObs]
    /\ llmCalls' = [llmCalls EXCEPT ![r] = 0]
    /\ lastOut' = [lastOut EXCEPT ![r] = NoOutput]
    /\ unparsable' = [unparsable EXCEPT ![r] = TRUE]
    /\ output' = [output EXCEPT ![r] = ""]
    /\ chat_history' = [chat_history EXCEPT ![r] = MemAfter(sid'[r])]
    /\ UNCHANGED <<request, turns, last, bookings, clock, lastCall>>

\* one iteration of the run: ask the reasoning model, parse, act, observe
take_next_step(r) ==
    /\ pc[r] = "THINKING"
    /\ llmCalls' = [llmCalls EXCEPT ![r] = @ + 1]
    /\ \E o \in LLMOutputs :
        /\ lastOut' = [lastOut EXCEPT ![r] = o]
        /\ unparsable' = [unparsable EXCEPT ![r] = @ /\ o.kind = "malformed"]
        /\
          CASE o.kind = "error" ->
                  /\ pc' = [pc EXCEPT ![r] = "FAILED"]
                  /\ UNCHANGED <<iterations, lastObs, output, bookings>>
            [] o.kind = "final" ->
                  /\ pc' = [pc EXCEPT ![r] = "DONE"]
                  /\ output' = [output EXCEPT ![r] = o.text]
                  /\ UNCHANGED <<iterations, lastObs, bookings>>
            [] o.kind = "malformed" ->
                  IF handle_parsing_errors
                  THEN /\ lastObs' = [lastObs EXCEPT ![r] = ParseErrorObs]
                       /\ iterations' = [iterations EXCEPT ![r] = @ + 1]
                       /\ pc' = [pc EXCEPT ![r] = AfterStep(iterations[r] + 1)]
                       /\ UNCHANGED <<output, bookings>>
                  ELSE /\ pc' = [pc EXCEPT ![r] = "FAILED"]
                       /\ UNCHANGED <<iterations, lastObs, output, bookings>>
            [] o.kind = "tool" ->
                  \E a \in ActOutcomes(o.text, bookings, clock) :
                     /\ bookings' = a.files
                     /\ IF a.failed
                        THEN /\ pc' = [pc EXCEPT ![r] = "FAILED"]
                             /\ UNCHANGED <<iterations, lastObs, output>>
                        ELSE /\ lastObs' = [lastObs EXCEPT ![r] = a.obs]
                             /\ iterations' = [iterations EXCEPT ![r] = @ + 1]
                             /\ pc' = [pc EXCEPT ![r] = AfterStep(iterations[r] + 1)]
                             /\ UNCHANGED output
    /\ UNCHANGED <<sessions, issued, loop, request, sid, chat_history, turns, last,
                   clock, lastCall>>

\* the cap is reached: the early-stopping policy produces the answer
return_stopped_response(r) ==
    /\ pc[r] = "STOPPED"
    /\ \E o \in LLMOutputs :
          LET res == StoppedResponse(o)
          IN /\ pc' = [pc EXCEPT ![r] = IF res.failed THEN "FAILED" ELSE "DONE"]
             /\ output' = [output EXCEPT ![r] = res.text]
             /\ lastOut' = [lastOut EXCEPT ![r] = IF res.called THEN o ELSE @]
             /\ unparsable' = [unparsable EXCEPT ![r] =
                                  IF res.called THEN @ /\ o.kind = "malformed" ELSE @]
             /\ llmCalls' = [llmCalls EXCEPT ![r] = IF res.called THEN @ + 1 ELSE @]
    /\ UNCHANGED <<sessions, issued, loop, request, sid, iterations, lastObs,
                   chat_history, turns, last, bookings, clock, lastCall>>

\* (mutants) the scratch entry is stored too; the answer is stored first
NewMessagesWithScratch(r) ==
    <<HumanMessage(request[r].message), [role |-> "tool", content |-> lastObs[r].kind],
      AIMessage(output[r])>>
NewMessagesSwapped(r) == <<AIMessage(output[r]), HumanMessage(request[r].message)>>

\* the messages chat appends to the memory once the run has returned
NewMessages(r) == <<HumanMessage(request[r].message), AIMessage(output[r])>>

RECURSIVE Extend(_, _)
Extend(messages, new) ==
    IF new = <<>> THEN messages
    ELSE Extend(add_message(messages, Head(new)), Tail(new))

\* chat, lines 130-137: the run returned; update the memory and answer
chat_commit(r) ==
    /\ pc[r] = "DONE"
    /\ sessions' = IF sid[r] \in DOMAIN sessions
                   THEN [sessions EXCEPT ![sid[r]] = Extend(@, NewMessages(r))]
                   ELSE sessions
    /\ turns' = [turns EXCEPT ![sid[r]] = @ + 1]
    /\ last' = [op |-> "chat", status |-> 200, session_id |-> sid[r],
                body |-> output[r], ids |-> {}]
    /\ request' = [request EXCEPT ![r] = NoRequest]
    /\ pc' = [pc EXCEPT ![r] = "idle"]
    /\ loop' = NoReq
    /\ sid' = [sid EXCEPT ![r] = None]
    /\ output' = [output EXCEPT ![r] = ""]
    /\ chat_history' = [chat_history EXCEPT ![r] = <<>>]
    /\ iterations' = [iterations EXCEPT ![r] = 0]
    /\ lastObs' = [lastObs EXCEPT ![r] = NoObs]
    /\ llmCalls' = [llmCalls EXCEPT ![r] = 0]
    /\ lastOut' = [lastOut EXCEPT ![r] = NoOutput]
    /\ unparsable' = [unparsable EXCEPT ![r] = TRUE]
    /\ UNCHANGED <<issued, bookings, clock, lastCall>>

\* (mutant) the user message had been stored before the run was started
chat_fail_keeps_user(r) ==
    /\ pc[r] = "FAILED"
    /\ sessions' = [sessions EXCEPT ![sid[r]] =
                       add_message(@, HumanMessage(request[r].message))]
    /\ last' = [op |-> "chat", status |-> 500, session_id |-> None,
                body |-> "Error processing request", ids |-> {}]
    /\ request' = [request EXCEPT ![r] = NoRequest]
    /\ pc' = [pc EXCEPT ![r] = "idle"]
    /\ loop' = NoReq
    /\ sid' = [sid EXCEPT ![r] = None]
    /\ output' = [output EXCEPT ![r] = ""]
    /\ chat_history' = [chat_history EXCEPT ![r] = <<>>]
    /\ iterations' = [iterations EXCEPT ![r] = 0]
    /\ lastObs' = [lastObs EXCEPT ![r] = NoObs]
    /\ llmCalls' = [llmCalls EXCEPT ![r] = 0]
    /\ lastOut' = [lastOut EXCEPT ![r] = NoOutput]
    /\ unparsable' = [unparsable EXCEPT ![r] = TRUE]
    /\ UNCHANGED <<issued, turns, bookings, clock, lastCall>>

\* (mutant) a failed run resets the memory of its session
chat_fail_clears_memory(r) ==
    /\ pc[r] = "FAILED"
    /\ sessions' = [sessions EXCEPT ![sid[r]] = <<>>]
    /\ last' = [op |-> "chat", status |-> 500, session_id |-> None,
                body |-> "Error processing request", ids |-> {}]
    /\ request' = [request EXCEPT ![r] = NoRequest]
    /\ pc' = [pc EXCEPT ![r] = "idle"]
    /\ loop' = NoReq
    /\ sid' = [sid EXCEPT ![r] = None]
    /\ output' = [output EXCEPT ![r] = ""]
    /\ chat_history' = [chat_history EXCEPT ![r] = <<>>]
    /\ iterations' = [iterations EXCEPT ![r] = 0]
    /\ lastObs' = [lastObs EXCEPT ![r] = NoObs]
    /\ llmCalls' = [llmCalls EXCEPT ![r] = 0]
    /\ lastOut' = [lastOut EXCEPT ![r] = NoOutput]
    /\ unparsable' = [unparsable EXCEPT ![r] = TRUE]
    /\ UNCHANGED <<issued, turns, bookings, clock, lastCall>>

\* (mutant) the except path removes the session when it holds no message
chat_fail_rolls_back(r) ==
    /\ pc[r] = "FAILED"
    /\ sessions' = IF sessions[sid[r]] = <<>> THEN Drop(sessions, sid[r]) ELSE sessions
    /\ last' = [op |-> "chat", status |-> 500, session_id |-> None,
                body |-> "Error processing request", ids |-> {}]
    /\ request' = [request EXCEPT ![r] = NoRequest]
    /\ pc' = [pc EXCEPT ![r] = "idle"]
    /\ loop' = NoReq
    /\ sid' = [sid EXCEPT ![r] = None]
    /\ output' = [output EXCEPT ![r] = ""]
    /\ chat_history' = [chat_history EXCEPT ![r] = <<>>]
    /\ iterations' = [iterations EXCEPT ![r] = 0]
    /\ lastObs' = [lastObs EXCEPT ![r] = NoObs]
    /\ llmCalls' = [llmCalls EXCEPT ![r] = 0]
    /\ lastOut' = [lastOut EXCEPT ![r] = NoOutput]
    /\ unparsable' = [unparsable EXCEPT ![r] = TRUE]
    /\ UNCHANGED <<issued, turns, bookings, clock, lastCall>>

\* chat, lines 139-143: the run raised; answer with one HTTP 500
chat_fail(r) ==
    /\ pc[r] = "FAILED"
    /\ last' = [op |-> "chat", status |-> 500, session_id |-> None,
                body |-> "Error processing request", ids |-> {}]
    /\ request' = [request EXCEPT ![r] = NoRequest]
    /\ pc' = [pc EXCEPT ![r] = "idle"]
    /\ loop' = NoReq
    /\ sid' = [sid EXCEPT ![r] = None]
    /\ output' = [output EXCEPT ![r] = ""]
    /\ chat_history' = [chat_history EXCEPT ![r] = <<>>]
    /\ iterations' = [iterations EXCEPT ![r] = 0]
    /\ lastObs' = [lastObs EXCEPT ![r] = NoObs]
    /\ llmCalls' = [llmCalls EXCEPT ![r] = 0]
    /\ lastOut' = [lastOut EXCEPT ![r] = NoOutput]
    /\ unparsable' = [unparsable EXCEPT ![r] = TRUE]
    /\ UNCHANGED <<sessions, issued, turns, bookings, clock, lastCall>>

\* create_session, lines 81-96
create_session ==
    /\ LoopFree
    /\ \E u \in Uuids \ (issued \cup DOMAIN sessions) :
          /\ issued' = issued \cup {u}
          /\ sessions' = Put(sessions, u, create_memory_for_session(u))
          /\ last' = [op |-> "create", status |-> 200, session_id |-> u,
                      body |-> "New session created successfully", ids |-> {}]
    /\ UNCHANGED <<loop, pc, request, sid, runVars, turns, bookings,
                   clock, lastCall>>

\* (mutant) sessions.pop(session_id, None): an absent id is deleted as well
delete_session_absent_ok(s) ==
    /\ LoopFree
    /\ sessions' = Drop(sessions, s)
    /\ turns' = [turns EXCEPT ![s] = 0]
    /\ last' = [op |-> "delete", status |-> 200, session_id |-> s,
                body |-> "Session deleted successfully", ids |-> {}]
    /\ UNCHANGED <<issued, loop, pc, request, sid, runVars, bookings,
                   clock, lastCall>>

\* delete_session, lines 146-158
delete_session(s) ==
    /\ LoopFree
    /\ IF s \in DOMAIN sessions
       THEN /\ sessions' = Drop(sessions, s)
            /\ turns' = [turns EXCEPT ![s] = 0]
            /\ last' = [op |-> "delete", status |-> 200, session_id |-> s,
                        body |-> "Session deleted successfully", ids |-> {}]
       ELSE /\ last' = [op |-> "delete", status |-> 404, session_id |-> s,
                        body |-> "Session not found", ids |-> {}]
            /\ UNCHANGED <<sessions, turns>>
    /\ UNCHANGED <<issued, loop, pc, request, sid, runVars, bookings,
                   clock, lastCall>>

\* list_sessions, lines 161-169
list_sessions ==
    /\ LoopFree
    /\ last' = [op |-> "list", status |-> 200, session_id |-> None,
                body |-> "", ids |-> DOMAIN sessions]
    /\ UNCHANGED <<sessions, issued, loop, pc, request, sid, runVars,
                   turns, bookings, clock, lastCall>>

Next ==
    \/ \E r \in Reqs : Submit(r)
    \/ \E r \in Reqs : chat_begin(r)
    \/ \E r \in Reqs : take_next_step(r)
    \/ \E r \in Reqs : return_stopped_response(r)
    \/ \E r \in Reqs : chat_commit(r)
    \/ \E r \in Reqs : chat_fail(r)
    \/ create_session
    \/ \E s \in SessionIds : delete_session(s)
    \/ list_sessions

Spec == Init /\ [][Next]_vars

-----------------------------------------------------------------------------
(* ToolSpec: the tool bodies called directly *)

NoneOrKey == {None, "", "k"}

ListBodies ==
    {[json |-> FALSE, has_list |-> FALSE, list |-> <<>>],
     [json |-> TRUE, has_list |-> FALSE, list |-> <<>>],
     [json |-> TRUE, has_list |-> TRUE, list |-> <<>>],
     [json |-> TRUE, has_list |-> TRUE, list |-> <<"ok", "ok">>],
     [json |-> TRUE, has_list |-> TRUE, list |-> <<"ok", "bad">>],
     [json |-> TRUE, has_list |-> TRUE, list |-> <<"ok", "ok", "ok", "ok", "ok", "ok">>]}

\* what one HTTP request to a provider can come to
Responses(bodies) ==
    {[net |-> "timeout", status |-> 0, body |-> b] : b \in {CHOOSE x \in bodies : TRUE}}
        \cup {[net |-> "error", status |-> 0, body |-> b] : b \in {CHOOSE x \in bodies : TRUE}}
        \cup {[net |-> "ok", status |-> 500, body |-> b] : b \in {CHOOSE x \in bodies : TRUE}}
        \cup {[net |-> "ok", status |-> 200, body |-> b] : b \in bodies}

FlightArgs ==
    [origin : {"JFK", Obj}, destination : {"CDG"}, departure_date : {"2025-06-01"},
     return_date : {None, "2025-06-08"}]

FlightEnvs ==
    {[api_key |-> k, net |-> r.net, status |-> r.status, body |-> r.body] :
        k \in NoneOrKey, r \in Responses(ListBodies)}

HotelArgs ==
    [city : {"Paris", "BLR", Obj}, check_in : {"2025-06-01"}, check_out : {"2025-06-03"},
     guests : {2}, max_results : -2..7]

HotelEnvs ==
    [api_key : {None, "k"}, api_secret : {None, "s"},
     token : Responses({"token", "nojson", "nokey"}),
     search : Responses(ListBodies)]

PyObject == [type |-> "pyobject", keys |-> {}, src |-> ""]
DictValue == [type |-> "dict", keys |-> {"hotel"}, src |-> ""]

BookingTypes ==
    {[str |-> TRUE, val |-> Flight],
     [str |-> TRUE, val |-> Hotel],
     [str |-> TRUE, val |-> <<"H", "O", "T", "E", "L">>],
     [str |-> TRUE, val |-> <<"F", "l", "i", "g", "h", "t">>],
     [str |-> TRUE, val |-> <<"c", "a", "r">>],
     [str |-> FALSE, val |-> <<>>]}

BookingDetails ==
    {[str |-> TRUE, val |-> PlainText],
     [str |-> TRUE, val |-> ObjectText],
     [str |-> TRUE, val |-> NumberText],
     [str |-> FALSE, val |-> DictValue],
     [str |-> FALSE, val |-> PyObject]}

BookingArgs ==
    [booking_type : BookingTypes, booking_details : BookingDetails,
     customer_name : {"A. Traveler", Obj}, customer_email : {"a@x.com"}]

BookingEnvs ==
    {[makedirs |-> "ok", open |-> "ok", write |-> "ok"],
     [makedirs |-> "error", open |-> "ok", write |-> "ok"],
     [makedirs |-> "ok", open |-> "error", write |-> "ok"],
     [makedirs |-> "ok", open |-> "ok", write |-> "error"]}

Called(t, a, e, n) == [tool |-> t, state |-> "called", args |-> a, env |-> e, n |-> n]

ToolInit ==
    /\ sessions = << >>
    /\ issued = {}
    /\ loop = NoReq
    /\ pc = [r \in Reqs |-> "idle"]
    /\ request = [r \in Reqs |-> NoRequest]
    /\ sid = [r \in Reqs |-> None]
    /\ iterations = [r \in Reqs |-> 0]
    /\ lastObs = [r \in Reqs |-> NoObs]
    /\ llmCalls = [r \in Reqs |-> 0]
    /\ lastOut = [r \in Reqs |-> NoOutput]
    /\ unparsable = [r \in Reqs |-> TRUE]
    /\ output = [r \in Reqs |-> ""]
    /\ chat_history = [r \in Reqs |-> <<>>]
    /\ turns = [s \in SessionIds |-> 0]
    /\ last = NoResponse
    /\ bookings = << >>
    /\ clock = 0
    /\ lastCall \in {Called("search_flights", a, e, 1) : a \in FlightArgs, e \in FlightEnvs}
                  \cup {Called("search_hotels", a, e, 1) : a \in HotelArgs, e \in HotelEnvs}
                  \cup {Called("create_booking", a, e, 1) : a \in BookingArgs, e \in BookingEnvs}

Return(ret) ==
    [tool |-> lastCall.tool, state |-> "returned", args |-> lastCall.args,
     env |-> lastCall.env, n |-> lastCall.n, ret |-> ret]

CallFlights ==
    /\ lastCall.state = "called"
    /\ lastCall.tool = "search_flights"
    /\ lastCall' = Return(search_flights(lastCall.args, lastCall.env))
    /\ UNCHANGED <<chatVars, bookings, clock>>

CallHotels ==
    /\ lastCall.state = "called"
    /\ lastCall.tool = "search_hotels"
    /\ lastCall' = Return(search_hotels(lastCall.args, lastCall.env))
    /\ UNCHANGED <<chatVars, bookings, clock>>

CallBooking ==
    /\ lastCall.state = "called"
    /\ lastCall.tool = "create_booking"
    /\ LET b == create_booking(lastCall.args, lastCall.env, clock, bookings)
       IN /\ lastCall' = Return(b.ret)
          /\ bookings' = b.files
    /\ UNCHANGED <<chatVars, clock>>

\* the next booking request arrives
NextBooking ==
    /\ lastCall.state = "returned"
    /\ lastCall.tool = "create_booking"
    /\ lastCall.n < MaxCalls
    /\ \E a \in BookingArgs, e \in BookingEnvs :
          lastCall' = Called("create_booking", a, e, lastCall.n + 1)
    /\ UNCHANGED <<chatVars, bookings, clock>>

\* a second passes before the booking at hand is made
Tick ==
    /\ lastCall.tool = "create_booking"
    /\ lastCall.state = "called"
    /\ clock < MaxClock
    /\ clock' = clock + 1
    /\ UNCHANGED <<chatVars, bookings, lastCall>>

ToolNext == CallFlights \/ CallHotels \/ CallBooking \/ NextBooking \/ Tick

ToolSpec == ToolInit /\ [][ToolNext]_vars

-----------------------------------------------------------------------------
(* Claims about the session memory *)

\* the steps of request r's chat handler
Begins(r) == pc[r] = "pending" /\ pc'[r] \in InFlight
Commits(r) == pc[r] = "DONE" /\ pc'[r] = "idle"
Fails(r) == pc[r] = "FAILED" /\ pc'[r] = "idle"

\* C1: a session that has seen N successful chat turns since it was created holds
\* exactly 2N messages, whatever failed turns and tool observations there were.
C1_MemoryIsTwoPerTurn ==
    \A s \in DOMAIN sessions : Len(sessions[s]) = 2 * turns[s]

\* a turn succeeded on a session, a tool was observed on the way, and a later
\* turn has just failed
C1_Witness ==
    \E s \in DOMAIN sessions :
        /\ turns[s] = 1
        /\ Len(sessions[s]) = 2
        /\ bookings # << >>
        /\ last.op = "chat"
        /\ last.status = 500

\* C2: a turn whose run fails, or is still unfinished, has left the memory of its
\* session as it was before the turn, and a failed turn ends with one HTTP 500.
C2_NoMemoryChangeBeforeAnswer ==
    [][\A r \in Reqs :
          /\ Begins(r) => MemAfter(sid'[r]) = MemOf(sid'[r])
          /\ pc[r] \in {"THINKING", "STOPPED", "FAILED"} =>
                /\ MemAfter(sid[r]) = MemOf(sid[r])
                /\ pc'[r] \in InFlight \/ Fails(r)
          /\ Fails(r) =>
                /\ sessions' = sessions
                /\ last' = [op |-> "chat", status |-> 500, session_id |-> None,
                            body |-> "Error processing request", ids |-> {}]
                /\ loop' = NoReq
      ]_vars

\* a run failed after some iterations on a session that already held a turn
C2_Witness ==
    \E r \in Reqs :
        /\ pc[r] = "FAILED"
        /\ iterations[r] >= 1
        /\ Len(MemOf(sid[r])) = 2

\* C3: a successful turn appends the user message and then the assistant's answer,
\* so every memory alternates user, assistant, ... and holds no tool entry.
Alternates(mem) ==
    /\ Len(mem) % 2 = 0
    /\ \A i \in 1..Len(mem) :
          mem[i].role = IF i % 2 = 1 THEN "user" ELSE "assistant"

C3_UserThenAssistant ==
    [][/\ \A s \in DOMAIN sessions : Alternates(sessions[s])
       /\ \A s \in DOMAIN sessions' : Alternates(sessions'[s])
       /\ \A r \in Reqs :
             Commits(r) =>
                sessions' = [sessions EXCEPT ![sid[r]] =
                                @ \o << [role |-> "user", content |-> request[r].message],
                                        [role |-> "assistant", content |-> output[r]] >>]
      ]_vars

\* a memory of two turns, the second answered by the best-effort text at the cap
C3_Witness ==
    \E s \in DOMAIN sessions :
        /\ Len(sessions[s]) = 4
        /\ sessions[s][4].content = RawText

\* C4: at most one reasoning run is in flight for a session; the turn that holds
\* the session gives it up on success and on failure, and only then another starts.
C4_OneRunPerSession ==
    [][/\ \A r1, r2 \in Reqs :
             (r1 # r2 /\ pc[r1] \in InFlight /\ pc[r2] \in InFlight) => sid[r1] # sid[r2]
       /\ \A r \in Reqs :
             /\ (Commits(r) \/ Fails(r)) => loop' = NoReq
             /\ Begins(r) =>
                   \A q \in Reqs \ {r} : ~(pc[q] \in InFlight /\ sid[q] = sid'[r])
      ]_vars

\* a request waits for the session another request's run holds
C4_Witness ==
    \E r1, r2 \in Reqs :
        /\ pc[r1] = "THINKING"
        /\ iterations[r1] >= 1
        /\ pc[r2] = "pending"
        /\ request[r2].session_id = sid[r1]

-----------------------------------------------------------------------------
(* Claims about the reasoning run *)

\* a step of r's run in which the reasoning model was called
Thinks(r) == pc[r] \in {"THINKING", "STOPPED"} /\ llmCalls'[r] = llmCalls[r] + 1

\* C5: a run in which every output of the reasoning model is unparsable turns each
\* parse failure into an observation that costs one iteration, stops after exactly
\* 10 iterations and ends DONE with a non-empty best-effort answer, never FAILED.
C5_UnparsableRunsStopAtCap ==
    \A r \in Reqs :
        (pc[r] \in InFlight /\ unparsable[r]) =>
            /\ pc[r] # "FAILED"
            /\ llmCalls[r] >= 1 => lastObs[r].kind = "parse_error"
            /\ pc[r] = "THINKING" => iterations[r] < 10 /\ llmCalls[r] = iterations[r]
            /\ pc[r] = "STOPPED" => iterations[r] = 10 /\ llmCalls[r] = 10
            /\ pc[r] = "DONE" =>
                  /\ iterations[r] = 10
                  /\ llmCalls[r] = 11
                  /\ output[r] # ""

\* the run of unparsable outputs has ended with its best-effort answer
C5_Witness ==
    \E r \in Reqs : pc[r] = "DONE" /\ unparsable[r] /\ iterations[r] = 10

C7_UnknownToolIsObserved ==
    [][\A r \in Reqs :
          (/\ pc[r] = "THINKING"
           /\ Thinks(r)
           /\ lastOut'[r].kind = "tool"
           /\ lastOut'[r].text \notin {"search_flights", "search_hotels", "create_booking"})
          => /\ pc'[r] \in {"THINKING", "STOPPED"}
             /\ lastObs'[r].kind = "invalid_tool"
             /\ lastObs'[r].name = lastOut'[r].text
             /\ lastObs'[r].adapter = None
             /\ iterations'[r] = iterations[r] + 1
             /\ bookings' = bookings
             /\ sessions' = sessions
             /\ loop' = r
      ]_vars

\* the unknown tool was called at the last cycle before the cap
C7_Witness ==
    \E r \in Reqs :
        /\ pc[r] = "STOPPED"
        /\ lastOut[r] = [kind |-> "tool", text |-> "cancel_booking"]
        /\ lastObs[r].kind = "invalid_tool"

-----------------------------------------------------------------------------
(* Claims about the tools *)

Returns(t) == lastCall.state = "returned" /\ lastCall.tool = t

LiveFlightFields ==
    {"success", "origin", "destination", "departure_date", "return_date", "flights", "count"}
LiveHotelFields ==
    {"success", "city", "check_in", "check_out", "guests", "hotels", "count"}

\* a provider request that did not come to a usable answer
Unusable(resp) ==
    \/ resp.net # "ok"
    \/ resp.status # 200
    \/ ~resp.body.json
    \/ \E i \in 1..Len(resp.body.list) : resp.body.list[i] = "bad"

FlightProviderFailed(e) ==
    ~Truthy(e.api_key) \/ Unusable([net |-> e.net, status |-> e.status, body |-> e.body])

HotelProviderFailed(e) ==
    \/ ~Truthy(e.api_key) \/ ~Truthy(e.api_secret)
    \/ e.token.net # "ok" \/ e.token.status # 200 \/ e.token.body # "token"
    \/ Unusable(e.search)

\* C8: each provider failure of a search tool (no credentials, a non-success
\* status, a timeout, an exception) yields the mock result: success, the fields of
\* a live result, and a non-empty list of options.
C8_FailuresGiveMock ==
    /\ (Returns("search_flights")
          /\ (\A v \in FlightArgVals(lastCall.args) : Serializable(v))
          /\ FlightProviderFailed(lastCall.env))
       => /\ ~lastCall.ret.raised
          /\ lastCall.ret.json.success
          /\ LiveFlightFields \subseteq Fields(lastCall.ret.json)
          /\ lastCall.ret.json.flights = MockFlights
    /\ (Returns("search_hotels")
          /\ (\A v \in HotelArgVals(lastCall.args) : Serializable(v))
          /\ lastCall.args.max_results = 5
          /\ HotelProviderFailed(lastCall.env))
       => /\ ~lastCall.ret.raised
          /\ lastCall.ret.json.success
          /\ LiveHotelFields \subseteq Fields(lastCall.ret.json)
          /\ lastCall.ret.json.hotels = MockHotels(lastCall.args.city)

\* C9: without credentials a search tool returns the mock result, tagged
\* source = "mock".
C9_MockIsTaggedSource ==
    (/\ lastCall.state = "returned"
     /\ \/ /\ lastCall.tool = "search_flights"
           /\ ~Truthy(lastCall.env.api_key)
           /\ \A v \in FlightArgVals(lastCall.args) : Serializable(v)
        \/ /\ lastCall.tool = "search_hotels"
           /\ ~Truthy(lastCall.env.api_key) \/ ~Truthy(lastCall.env.api_secret)
           /\ \A v \in HotelArgVals(lastCall.args) : Serializable(v))
    => /\ ~lastCall.ret.raised
       /\ lastCall.ret.json.success
       /\ "source" \in Fields(lastCall.ret.json)
       /\ lastCall.ret.json.source = "mock"

\* C10: whatever the arguments, the provider and the file system do, a tool returns
\* one JSON object with a boolean success field, and an error message when it is
\* false; no exception leaves the tool.
C10_ToolsAlwaysReturnJson ==
    lastCall.state = "returned" =>
        /\ lastCall.tool \in tools
        /\ ~lastCall.ret.raised
        /\ "success" \in Fields(lastCall.ret.json)
        /\ lastCall.ret.json.success \in BOOLEAN
        /\ ~lastCall.ret.json.success => "error" \in Fields(lastCall.ret.json)

\* a booking whose file could not be written came back as success:false
C10_Witness ==
    /\ Returns("create_booking")
    /\ lastCall.args.booking_type = [str |-> TRUE, val |-> Hotel]
    /\ lastCall.env.write = "error"
    /\ ~lastCall.ret.raised
    /\ ~lastCall.ret.json.success

-----------------------------------------------------------------------------
(* Claims about create_booking *)

\* the step in which the booking at hand is made
BookingCall ==
    /\ lastCall.state = "called"
    /\ lastCall.tool = "create_booking"
    /\ lastCall'.state = "returned"

\* s is w in some mixture of upper and lower case
CaseVariant(s, w) ==
    /\ Len(s) = Len(w)
    /\ \A i \in 1..Len(w) : s[i] \in {w[i], UpperChar(w[i])}

FlightOrHotel(t) == t.str /\ (CaseVariant(t.val, Flight) \/ CaseVariant(t.val, Hotel))

\* nothing but the booking type can make the call at hand fail
BookingCanSucceed(a, e) ==
    /\ e = [makedirs |-> "ok", open |-> "ok", write |-> "ok"]
    /\ Serializable(a.customer_name) /\ Serializable(a.customer_email)
    /\ a.booking_details.str \/ a.booking_details.val.type = "dict"

\* C11: create_booking with a booking type that is not flight or hotel in any
\* case returns success false and leaves the stored records as they were; every
\* case variant of flight or hotel is accepted.
C11_InvalidTypeWritesNothing ==
    [][BookingCall =>
        IF FlightOrHotel(lastCall.args.booking_type)
        THEN /\ ~lastCall'.ret.raised
             /\ lastCall'.ret.json # InvalidType
             /\ BookingCanSucceed(lastCall.args, lastCall.env)
                   => lastCall'.ret.json.success
        ELSE /\ ~lastCall'.ret.raised
             /\ lastCall'.ret.json.success = FALSE
             /\ bookings' = bookings]_vars

\* a booking of type car is refused while an earlier record is stored
C11_Witness ==
    /\ Returns("create_booking")
    /\ lastCall.args.booking_type.val = <<"c", "a", "r">>
    /\ lastCall.ret.json = InvalidType
    /\ \E f \in DOMAIN bookings : bookings[f].complete

Digits == {"0", "1", "2", "3", "4", "5", "6", "7", "8", "9"}

\* TYPE3-<14 digits>
WellFormedRef(ref, type3) ==
    /\ Len(ref) = 3 + 1 + 14
    /\ SubSeq(ref, 1, 3) = type3
    /\ ref[4] = "-"
    /\ \A i \in 5..Len(ref) : ref[i] \in Digits

\* C12: a successful create_booking returns success true, status CONFIRMED and
\* the reference HOT-<14 digits> for a hotel, FLI-<14 digits> for a flight, the
\* digits being the second of creation; the record stored under that reference is
\* the record returned.
C12_ReferenceAndStoredRecord ==
    (Returns("create_booking") /\ ~lastCall.ret.raised /\ lastCall.ret.json.success) =>
        LET b == lastCall.ret.json
            t == lastCall.args.booking_type
        IN /\ b.success = TRUE
           /\ b.status = "CONFIRMED"
           /\ FlightOrHotel(t)
           /\ CaseVariant(t.val, Hotel) => WellFormedRef(b.booking_reference, <<"H", "O", "T">>)
           /\ CaseVariant(t.val, Flight) => WellFormedRef(b.booking_reference, <<"F", "L", "I">>)
           /\ SubSeq(b.booking_reference, 5, 18) = Timestamp(clock)
           /\ b.booking_reference \in DOMAIN bookings
           /\ bookings[b.booking_reference] = Whole(b)

\* a booking given as Flight was confirmed in second 1 and stored as FLI-...01
C12_Witness ==
    /\ Returns("create_booking")
    /\ lastCall.args.booking_type.val = <<"F", "l", "i", "g", "h", "t">>
    /\ lastCall.ret.json.success
    /\ clock = 1
    /\ lastCall.ret.json.booking_reference =
          <<"F", "L", "I", "-", "2", "0", "2", "5", "0", "6", "0", "1", "1", "2", "0", "0", "0", "1">>
    /\ bookings[lastCall.ret.json.booking_reference].complete

\* C13: a booking record, once stored by a successful call, stays stored
\* unchanged under its reference whatever calls follow, a booking of the same
\* type within the same second included.
C13_StoredRecordsNeverChange ==
    [][\A f \in DOMAIN bookings :
          bookings[f].complete => (f \in DOMAIN bookings' /\ bookings'[f] = bookings[f])]_vars

-----------------------------------------------------------------------------
(* Claims about the session table *)

\* what the first step of request r's chat turn does about the session, the
\* request counting as carrying an id when `supplied`
SessionObtained(r, supplied) ==
    LET q == request[r].session_id
        s == sid'[r]
    IN /\ pc'[r] = "THINKING"
       /\ s \in DOMAIN sessions'
       /\ \A x \in DOMAIN sessions : x \in DOMAIN sessions' /\ sessions'[x] = sessions[x]
       /\ DOMAIN sessions' \subseteq DOMAIN sessions \cup {s}
       /\ chat_history'[r] = sessions'[s]
       /\ ~supplied => (s \notin DOMAIN sessions /\ sessions'[s] = <<>>)
       /\ (supplied /\ q \notin DOMAIN sessions) => (s = q /\ sessions'[s] = <<>>)
       /\ (supplied /\ q \in DOMAIN sessions) => (s = q /\ sessions' = sessions)

\* the answer names the id under which the turn's two messages were stored
StoredUnderReturnedId(r) ==
    /\ last'.status = 200
    /\ last'.session_id = sid[r]
    /\ sid[r] \in DOMAIN sessions'
    /\ sessions'[sid[r]] = MemOf(sid[r]) \o NewMessages(r)

\* C14 (as claimed): obtaining the session of a chat turn never fails; without an
\* id a new id is generated, with any id that is not in the table a fresh empty
\* session is created under exactly that id, with an id of the table the session is
\* used unchanged; the id returned is the id the messages are stored under.
C14_SessionUnderSuppliedId ==
    [][\A r \in Reqs :
          /\ Begins(r) => SessionObtained(r, request[r].session_id # None)
          /\ Commits(r) => StoredUnderReturnedId(r)]_vars

\* C14 (amended): the same, an empty id counting as no id: only a non-empty id
\* names the session.
C14_SessionUnderNonEmptyId ==
    [][\A r \in Reqs :
          /\ Begins(r) => SessionObtained(r, Truthy(request[r].session_id))
          /\ Commits(r) => StoredUnderReturnedId(r)]_vars

\* a turn sent with the empty id runs on a new session while the session a
\* client named itself holds an earlier turn
C14_Witness ==
    \E r \in Reqs :
        /\ pc[r] = "THINKING"
        /\ request[r].session_id = ""
        /\ sid[r] \in Uuids
        /\ sessions[sid[r]] = <<>>
        /\ \E c \in ClientIds : c \in DOMAIN sessions /\ Len(sessions[c]) = 2

\* a step of DELETE /api/session/{s} that changed something
DeleteStep(s) ==
    /\ last'.op = "delete"
    /\ last'.session_id = s
    /\ pc' = pc
    /\ <<last, sessions>>' # <<last, sessions>>

\* C15: deleting an id of the session table succeeds and removes that session;
\* deleting an id that is not in the table fails with session-not-found and leaves
\* the table as it was, so the second of two deletions in a row fails.
C15_DeleteOnceThenNotFound ==
    [][\A s \in SessionIds :
          DeleteStep(s) =>
             IF s \in DOMAIN sessions
             THEN /\ last'.status = 200
                  /\ s \notin DOMAIN sessions'
                  /\ sessions' = Drop(sessions, s)
             ELSE /\ last'.status = 404
                  /\ last'.body = "Session not found"
                  /\ sessions' = sessions]_vars

\* a generated id, in the table when it was issued, has been deleted and a further
\* deletion of it was answered with 404 while another session remains
C15_Witness ==
    /\ last.op = "delete"
    /\ last.status = 404
    /\ last.session_id \in issued
    /\ last.session_id \notin DOMAIN sessions
    /\ DOMAIN sessions # {}

\* C16: a deleted session's memory is gone for good: the id leaves the table, a
\* listing does not show it, a run only ever sees the memory the table holds for
\* its id, and a later chat turn on the deleted id starts a fresh session whose run
\* is given an empty history.
C16_DeletedMemoryIsGone ==
    [][/\ \A s \in SessionIds :
             (DeleteStep(s) /\ last'.status = 200) => s \notin DOMAIN sessions'
       /\ (last' # last /\ last'.op = "list") => last'.ids = DOMAIN sessions
       /\ \A r \in Reqs :
             /\ (Begins(r) /\ sid'[r] \notin DOMAIN sessions) =>
                   /\ chat_history'[r] = <<>>
                   /\ sessions'[sid'[r]] = <<>>
             /\ pc'[r] \in InFlight =>
                   /\ sid'[r] \in DOMAIN sessions'
                   /\ chat_history'[r] = sessions'[sid'[r]]
             /\ Commits(r) => sessions'[sid[r]] = chat_history[r] \o NewMessages(r)
      ]_vars

\* the latest answer is the successful deletion of a session a client named, and a
\* turn on that same id is running with an empty history
C16_Witness ==
    \E r \in Reqs :
        /\ last.op = "delete" /\ last.status = 200
        /\ last.session_id \in ClientIds
        /\ pc[r] = "THINKING"
        /\ iterations[r] >= 1
        /\ request[r].session_id = last.session_id
        /\ sid[r] = last.session_id
        /\ chat_history[r] = <<>>
        /\ sessions[sid[r]] = <<>>

IsPrefix(xs, ys) == Len(xs) <= Len(ys) /\ SubSeq(ys, 1, Len(xs)) = xs

\* C17: while a session stays in the table, no step of the session API (create,
\* chat, delete of another id, list) shortens its memory or removes, reorders or
\* replaces a message of it: the memory before a step is a prefix of the memory
\* after it.
C17_MemoryOnlyGrows ==
    [][\A s \in DOMAIN sessions \cap DOMAIN sessions' :
          /\ Len(sessions'[s]) >= Len(sessions[s])
          /\ IsPrefix(sessions[s], sessions'[s])]_vars

\* a session has grown turn by turn to four messages, the second turn just answered
C17_Witness ==
    \E s \in DOMAIN sessions :
        /\ Len(sessions[s]) = 4
        /\ last.op = "chat" /\ last.status = 200 /\ last.session_id = s

\* {"description": text}
Described(text) == [type |-> "dict", keys |-> {"description"}, src |-> text]

\* C18: create_booking given its details as text, with a valid type, does not
\* fail; the details returned and stored are structured data, and are
\* {description: text} whenever the text is not a JSON object.
C18_TextDetailsAreWrapped ==
    (/\ Returns("create_booking")
     /\ FlightOrHotel(lastCall.args.booking_type)
     /\ lastCall.args.booking_details.str
     /\ BookingCanSucceed(lastCall.args, lastCall.env))
    => LET b == lastCall.ret.json
           text == lastCall.args.booking_details.val
       IN /\ ~lastCall.ret.raised
          /\ b.success
          /\ b.booking_details.type = "dict"
          /\ text # ObjectText => b.booking_details = Described(text)
          /\ bookings[b.booking_reference] = Whole(b)

-----------------------------------------------------------------------------
(* Claims about concurrent chat requests *)

\* C19: whatever the interleaving of chat requests on one session id, the
\* appends of different turns do not interleave: a turn appends to the very
\* memory its run was given, its user message directly followed by its own
\* answer, nothing before them is lost, and a memory changes in no other way.
C19_TurnsDoNotInterleave ==
    [][/\ \A r \in Reqs :
             Commits(r) =>
                /\ sid[r] \in DOMAIN sessions
                /\ sessions[sid[r]] = chat_history[r]
                /\ sessions'[sid[r]] =
                      chat_history[r] \o << [role |-> "user", content |-> request[r].message],
                                            [role |-> "assistant", content |-> output[r]] >>
       /\ \A s \in DOMAIN sessions \cap DOMAIN sessions' :
             sessions'[s] # sessions[s] => \E r \in Reqs : Commits(r) /\ sid[r] = s
      ]_vars

\* two requests are outstanding on one session that holds a turn: the run of one
\* has finished with an answer and the other waits for the event loop
C19_Witness ==
    \E r1, r2 \in Reqs :
        /\ r1 # r2
        /\ pc[r1] = "DONE"
        /\ Len(chat_history[r1]) = 2
        /\ pc[r2] = "pending"
        /\ request[r2].session_id = sid[r1]

\* a step leaves every session but `a` as it was: none added, removed or changed
OnlyTouches(a) ==
    \A b \in SessionIds \ {a} :
        /\ b \in DOMAIN sessions' <=> b \in DOMAIN sessions
        /\ b \in DOMAIN sessions => sessions'[b] = sessions[b]

\* a step of POST /api/session that created session s
CreateStep(s) == s \in issued' \ issued /\ pc' = pc

\* C20: a chat turn on session A, whether it succeeds or fails, and the creation
\* or deletion of session A leave every other session's memory unchanged and add
\* or remove no id but A, also while requests on other sessions are outstanding.
C20_SessionsAreIsolated ==
    [][/\ \A r \in Reqs :
             /\ Begins(r) => OnlyTouches(sid'[r])
             /\ pc[r] \in InFlight => OnlyTouches(sid[r])
       /\ \A s \in SessionIds :
             /\ CreateStep(s) => (OnlyTouches(s) /\ s \in DOMAIN sessions')
             /\ DeleteStep(s) => OnlyTouches(s)
      ]_vars

\* a turn on one session has its answer while a request on another session, which
\* holds an earlier turn, waits for the event loop
C20_Witness ==
    \E r1, r2 \in Reqs :
        /\ pc[r1] = "DONE"
        /\ pc[r2] = "pending"
        /\ Truthy(request[r2].session_id)
        /\ request[r2].session_id # sid[r1]
        /\ request[r2].session_id \in DOMAIN sessions
        /\ Len(sessions[request[r2].session_id]) = 2

-----------------------------------------------------------------------------
(* Claims about failed turns and the mock hotel result *)

\* C21: a chat turn that had to create its session (no id, or an id not in the
\* table) and then fails leaves that session in the table with empty memory: the
\* failure answers 500 without an id, rolls nothing back, and a listing shows the
\* session.
C21_FailedTurnKeepsItsSession ==
    [][/\ \A r \in Reqs :
             /\ (Begins(r) /\ sid'[r] \notin DOMAIN sessions) =>
                   (sid'[r] \in DOMAIN sessions' /\ sessions'[sid'[r]] = <<>>)
             /\ (pc[r] \in InFlight /\ ~Commits(r)) =>
                   (sid[r] \in DOMAIN sessions' /\ sessions'[sid[r]] = chat_history[r])
             /\ Fails(r) =>
                   /\ sessions' = sessions
                   /\ last'.status = 500
                   /\ last'.session_id = None
                   /\ ~Truthy(request[r].session_id) =>
                         (sid[r] \in DOMAIN sessions' /\ sessions'[sid[r]] = <<>>)
       /\ (last' # last /\ last'.op = "list") => last'.ids = DOMAIN sessions'
      ]_vars

\* a listing shows a session under an id a client chose, with empty memory: only a
\* chat turn creates such a session, and the turn that did ended without an answer
C21_Witness ==
    /\ last.op = "list"
    /\ loop = NoReq
    /\ \E c \in ClientIds :
          /\ c \in last.ids
          /\ c \in DOMAIN sessions
          /\ sessions[c] = <<>>

\* the call at hand returned the mock hotel result
MockHotelResult ==
    /\ Returns("search_hotels")
    /\ ~lastCall.ret.raised
    /\ lastCall.ret.json.success
    /\ "note" \in Fields(lastCall.ret.json)

\* C22: in a mock hotel result, whatever integer max_results is (0, negative and
\* above 5 included), count is the number of entries of hotels, and is at most 5.
C22_MockCountIsListLength ==
    MockHotelResult =>
        /\ lastCall.ret.json.count = Len(lastCall.ret.json.hotels)
        /\ Len(lastCall.ret.json.hotels) <= 5

====
